---- MODULE Spec2Model ----
(***************************************************************************)
(* Grocery list manager (src/grocery.py): eight FastAPI handlers over one  *)
(* MongoDB collection.  The collection is a sequence of documents          *)
(* {_id, title, items}; every handler issues exactly one store command.    *)
(* Strings that the code parses (list ids) are sequences of one-character  *)
(* strings so that ObjectId(...) and str(...) are computed, not assumed.   *)
(***************************************************************************)
EXTENDS Integers, Sequences, FiniteSets, TLC

\* ------------------------------------------------------------------ bounds
\* Number of ObjectIds the store hands out (bounds the number of creates).
MaxIds == 2
\* Requests handled in one behaviour of Spec.
MaxOps == 4
\* Requests issued in one behaviour of the concurrent specification.
MaxReqs == 3

\* ------------------------------------------------------- program constants
\* bson.ObjectId: 12 bytes, written as 24 hexadecimal characters.
OidHexLen == 24

VARIABLES
    coll,      \* grocery_collection: sequence of documents, natural order
    nextOid,   \* number of ObjectIds generated so far by insert_one
    last,      \* the last request handled, its response, the collection before it
    ops,       \* number of requests handled so far
    fresh,     \* history: _id -> body it was created with, until first written
    pc,        \* per client: "idle" | "recv" | "done"
    req,       \* per client: the request in flight
    res,       \* per client: status and body computed by the handler
    log        \* history: store commands in the order the store applied them

vars == <<coll, nextOid, last, ops, fresh, pc, req, res, log>>

\* ------------------------------------------------------------ bson.ObjectId
HexChars == <<"0", "1", "2", "3", "4", "5", "6", "7", "8", "9",
              "a", "b", "c", "d", "e", "f">>
UpperHex == <<"0", "1", "2", "3", "4", "5", "6", "7", "8", "9",
              "A", "B", "C", "D", "E", "F">>

IsHexChar(ch) == \E i \in 1..16 : HexChars[i] = ch \/ UpperHex[i] = ch

HexVal(ch) == (CHOOSE i \in 1..16 : HexChars[i] = ch \/ UpperHex[i] = ch) - 1

\* ObjectId.is_valid for a str argument: 24 characters, all hexadecimal.
ValidOid(s) == Len(s) = OidHexLen /\ \A i \in 1..Len(s) : IsHexChar(s[i])

\* ObjectId(s) for a valid s: the nibbles of the 12 bytes.
ObjectId(s) == [i \in 1..OidHexLen |-> HexVal(s[i])]

\* str(oid): lower-case hexadecimal.
str(oid) == [i \in 1..OidHexLen |-> HexChars[oid[i] + 1]]

\* The n-th ObjectId the driver generates (distinct for distinct n).
GenOid(n) == [i \in 1..OidHexLen |-> IF i = OidHexLen THEN 9 + n ELSE 0]

\* ---------------------------------------------------------- pydantic models
\* Variant of GroceryItem: the default overrides the purchased value sent.
GroceryItem_DefaultWins(body) ==
    [name |-> body.name, quantity |-> body.quantity, purchased |-> FALSE]

\* GroceryItem(**body).dict(): purchased defaults to False.
GroceryItem(body) ==
    [name |-> body.name,
     quantity |-> body.quantity,
     purchased |-> IF "purchased" \in DOMAIN body THEN body.purchased ELSE FALSE]

\* GroceryList(**body).dict()
GroceryList(body) ==
    [title |-> body.title,
     items |-> [i \in 1..Len(body.items) |-> GroceryItem(body.items[i])]]

\* object_id_to_str: item["_id"] = str(item["_id"]); the other keys are kept.
object_id_to_str(doc) == [doc EXCEPT !._id = str(doc._id)]

\* ------------------------------------------------------------ store commands
\* Position of the first document whose _id is oid, 0 when there is none.
IndexOfId(c, oid) ==
    IF \E i \in 1..Len(c) : c[i]._id = oid
    THEN CHOOSE i \in 1..Len(c) :
             c[i]._id = oid /\ \A j \in 1..(i - 1) : c[j]._id # oid
    ELSE 0

RemoveAt(s, i) == [j \in 1..(Len(s) - 1) |-> IF j < i THEN s[j] ELSE s[j + 1]]

\* insert_one(list_dict): the driver adds a generated _id.
insert_one(c, doc, oid) ==
    Append(c, [_id |-> oid, title |-> doc.title, items |-> doc.items])

\* delete_one({"_id": oid})
delete_one(c, oid) ==
    LET i == IndexOfId(c, oid) IN
    IF i = 0 THEN [coll |-> c, deleted_count |-> 0]
    ELSE [coll |-> RemoveAt(c, i), deleted_count |-> 1]

\* Variant of SetFields: only the title is set, the items are kept.
SetFields_TitleOnly(doc, fields) == [doc EXCEPT !.title = fields.title]

\* {"$set": {"title": ..., "items": ...}} on one document
SetFields(doc, fields) ==
    [doc EXCEPT !.title = fields.title, !.items = fields.items]

\* Variant of Push: $addToSet, an element already in the array is not added.
Push_AddToSet(items, item) ==
    IF \E j \in 1..Len(items) : items[j] = item THEN items ELSE Append(items, item)

\* Variant of Push: $set where $push was meant, the array is overwritten.
Push_SetItems(items, item) == <<item>>

\* {"$push": {"items": item}}
Push(items, item) == Append(items, item)

\* Variant of Pull: only the first element that matches is removed.
Pull_First(items, name) ==
    IF \E j \in 1..Len(items) : items[j].name = name
    THEN LET f == CHOOSE j \in 1..Len(items) :
                      items[j].name = name /\ \A k \in 1..(j - 1) : items[k].name # name
         IN [m \in 1..(Len(items) - 1) |-> IF m < f THEN items[m] ELSE items[m + 1]]
    ELSE items

\* {"$pull": {"items": {"name": name}}}: every element that matches is removed
Pull(items, name) == SelectSeq(items, LAMBDA it : it.name # name)

\* Position of the first element of items named name, 0 when there is none.
FirstNamed(items, name) ==
    IF \E j \in 1..Len(items) : items[j].name = name
    THEN CHOOSE j \in 1..Len(items) :
             items[j].name = name /\ \A k \in 1..(j - 1) : items[k].name # name
    ELSE 0

\* Variant of SetPositional: items.$[].purchased, every element is set.
SetPositional_Every(items, name, p) ==
    [j \in 1..Len(items) |-> [items[j] EXCEPT !.purchased = p]]

\* {"$set": {"items.$.purchased": p}}: $ is the first element the query matched
SetPositional(items, name, p) ==
    [items EXCEPT ![FirstNamed(items, name)].purchased = p]

\* Variant of update_one_set: upsert=True, a missing document is inserted.
update_one_set_Upsert(c, oid, fields) ==
    IF \E i \in 1..Len(c) : c[i]._id = oid
    THEN [coll |-> [i \in 1..Len(c) |->
                       IF c[i]._id = oid
                       THEN [c[i] EXCEPT !.title = fields.title, !.items = fields.items]
                       ELSE c[i]],
          matched_count |-> 1]
    ELSE [coll |-> Append(c, [_id |-> oid, title |-> fields.title,
                              items |-> fields.items]),
          matched_count |-> 0]

\* update_one({"_id": oid}, {"$set": fields})
update_one_set(c, oid, fields) ==
    LET i == IndexOfId(c, oid) IN
    IF i = 0 THEN [coll |-> c, matched_count |-> 0]
    ELSE [coll |-> [c EXCEPT ![i] = SetFields(c[i], fields)], matched_count |-> 1]

\* update_one({"_id": oid}, {"$push": {"items": item}})
update_one_push(c, oid, item) ==
    LET i == IndexOfId(c, oid) IN
    IF i = 0 THEN [coll |-> c, matched_count |-> 0]
    ELSE [coll |-> [c EXCEPT ![i].items = Push(c[i].items, item)],
          matched_count |-> 1]

\* update_one({"_id": oid, "items.name": name}, {"$set": {"items.$.purchased": p}})
update_one_positional(c, oid, name, p) ==
    LET i == IndexOfId(c, oid) IN
    IF i = 0 \/ (i # 0 /\ FirstNamed(c[i].items, name) = 0)
    THEN [coll |-> c, matched_count |-> 0]
    ELSE [coll |-> [c EXCEPT ![i].items = SetPositional(c[i].items, name, p)],
          matched_count |-> 1]

\* update_one({"_id": oid}, {"$pull": {"items": {"name": name}}})
update_one_pull(c, oid, name) ==
    LET i == IndexOfId(c, oid) IN
    IF i = 0 THEN [coll |-> c, matched_count |-> 0]
    ELSE [coll |-> [c EXCEPT ![i].items = Pull(c[i].items, name)],
          matched_count |-> 1]

\* ------------------------------------------------------------------ handlers
\* An exception no handler catches (bson.errors.InvalidId raised by
\* ObjectId(list_id)): the server answers 500 and no store command is issued.
Unhandled(c) == [coll |-> c, status |-> 500, body |-> "Internal Server Error"]

\* raise HTTPException(status_code=404, detail=detail); c is the collection
\* as the store command of the handler left it.
HTTPException(c, detail) == [coll |-> c, status |-> 404, body |-> [detail |-> detail]]

Ok(c, body) == [coll |-> c, status |-> 200, body |-> body]

create_grocery_list(c, n, body) ==
    LET list_dict == GroceryList(body)
        inserted_id == GenOid(n + 1)
    IN Ok(insert_one(c, list_dict, inserted_id),
          [message |-> "Grocery list created successfully", id |-> str(inserted_id)])

\* Variant of get_all_grocery_lists: the last document is left out.
get_all_grocery_lists_DropLast(c) ==
    [coll |-> c, status |-> 200,
     body |-> [i \in 1..(IF Len(c) = 0 THEN 0 ELSE Len(c) - 1) |->
                  [c[i] EXCEPT !._id = str(c[i]._id)]]]

get_all_grocery_lists(c) ==
    Ok(c, [i \in 1..Len(c) |-> object_id_to_str(c[i])])

get_grocery_list(c, list_id) ==
    IF ~ValidOid(list_id) THEN Unhandled(c)
    ELSE LET i == IndexOfId(c, ObjectId(list_id)) IN
         IF i = 0 THEN HTTPException(c, "Grocery list not found")
         ELSE Ok(c, object_id_to_str(c[i]))

update_grocery_list(c, list_id, body) ==
    IF ~ValidOid(list_id) THEN Unhandled(c)
    ELSE LET result == update_one_set(c, ObjectId(list_id), GroceryList(body)) IN
         IF result.matched_count = 0
         THEN HTTPException(result.coll, "Grocery list not found")
         ELSE Ok(result.coll, [message |-> "Grocery list updated successfully"])

delete_grocery_list(c, list_id) ==
    IF ~ValidOid(list_id) THEN Unhandled(c)
    ELSE LET result == delete_one(c, ObjectId(list_id)) IN
         IF result.deleted_count = 0
         THEN HTTPException(result.coll, "Grocery list not found")
         ELSE Ok(result.coll, [message |-> "Grocery list deleted successfully"])

add_item_to_grocery_list(c, list_id, body) ==
    IF ~ValidOid(list_id) THEN Unhandled(c)
    ELSE LET result == update_one_push(c, ObjectId(list_id), GroceryItem(body)) IN
         IF result.matched_count = 0
         THEN HTTPException(result.coll, "Grocery list not found")
         ELSE Ok(result.coll, [message |-> "Item added to grocery list"])

update_item_status(c, list_id, item_name, purchased) ==
    IF ~ValidOid(list_id) THEN Unhandled(c)
    ELSE LET result == update_one_positional(c, ObjectId(list_id), item_name, purchased) IN
         IF result.matched_count = 0
         THEN HTTPException(result.coll, "Grocery list or item not found")
         ELSE Ok(result.coll, [message |-> "Item status updated"])

delete_item_from_grocery_list(c, list_id, item_name) ==
    IF ~ValidOid(list_id) THEN Unhandled(c)
    ELSE LET result == update_one_pull(c, ObjectId(list_id), item_name) IN
         IF result.matched_count = 0
         THEN HTTPException(result.coll, "Grocery list or item not found")
         ELSE Ok(result.coll, [message |-> "Item deleted from grocery list"])

\* --------------------------------------------------------------- the inputs
Milk == [name |-> "milk", quantity |-> 2]
Eggs == [name |-> "eggs", quantity |-> 1, purchased |-> TRUE]
MoreMilk == [name |-> "milk", quantity |-> 5, purchased |-> TRUE]

ItemBodies == {Milk, Eggs}
ItemNames == {"milk", "eggs"}
ListBodies == {[title |-> "Weekly", items |-> <<Milk, Eggs, MoreMilk>>],
               [title |-> "Party", items |-> << >>]}

Zeros(n) == [i \in 1..n |-> "0"]
\* Ids a client may send: the ids the store hands out, one of them in upper
\* case, a well-formed id the store never hands out, and two malformed ids.
IssuedIds == {str(GenOid(n)) : n \in 1..MaxIds}
UpperId == Zeros(OidHexLen - 1) \o <<"A">>
NeverIssuedId == Zeros(OidHexLen)
MalformedIds == {<<"4", "2">>, Zeros(OidHexLen - 1) \o <<"g">>}
ListIds == IssuedIds \cup {UpperId, NeverIssuedId} \cup MalformedIds

\* ------------------------------------------------- sequential specification
Clients == {1, 2}
NoReq == [op |-> "none"]
NoRes == [status |-> 0, body |-> << >>]

DocsOf(c, oid) == {c[i] : i \in {j \in 1..Len(c) : c[j]._id = oid}}

\* fresh after a handler turned collection c into d: lists whose document
\* changed are dropped, a created list is entered with the body it was sent.
NextFresh(f, c, d, r) ==
    LET kept == {o \in DOMAIN f : DocsOf(d, o) = DocsOf(c, o)}
        made == IF r.op = "CreateList" THEN {d[Len(d)]._id} ELSE {}
    IN [o \in kept \cup made |-> IF o \in kept THEN f[o] ELSE r.body]

Init ==
    /\ coll = << >>
    /\ nextOid = 0
    /\ last = [req |-> NoReq, status |-> 0, body |-> << >>, pre |-> << >>]
    /\ ops = 0
    /\ fresh = << >>
    /\ pc = [c \in Clients |-> "idle"]
    /\ req = [c \in Clients |-> NoReq]
    /\ res = [c \in Clients |-> NoRes]
    /\ log = << >>

\* One request handled from arrival to response.
Handled(r, h) ==
    /\ ops < MaxOps
    /\ coll' = h.coll
    /\ nextOid' = IF r.op = "CreateList" THEN nextOid + 1 ELSE nextOid
    /\ last' = [req |-> r, status |-> h.status, body |-> h.body, pre |-> coll]
    /\ ops' = ops + 1
    /\ fresh' = NextFresh(fresh, coll, h.coll, r)
    /\ UNCHANGED <<pc, req, res, log>>

CreateList ==
    \E b \in ListBodies :
        /\ nextOid < MaxIds
        /\ Handled([op |-> "CreateList", body |-> b],
                   create_grocery_list(coll, nextOid, b))

ListAll == Handled([op |-> "ListAll"], get_all_grocery_lists(coll))

GetList ==
    \E id \in ListIds :
        Handled([op |-> "GetList", list_id |-> id], get_grocery_list(coll, id))

ReplaceList ==
    \E id \in ListIds, b \in ListBodies :
        Handled([op |-> "ReplaceList", list_id |-> id, body |-> b],
                update_grocery_list(coll, id, b))

DeleteList ==
    \E id \in ListIds :
        Handled([op |-> "DeleteList", list_id |-> id], delete_grocery_list(coll, id))

AddItem ==
    \E id \in ListIds, b \in ItemBodies :
        Handled([op |-> "AddItem", list_id |-> id, body |-> b],
                add_item_to_grocery_list(coll, id, b))

UpdateItemPurchased ==
    \E id \in ListIds, nm \in ItemNames, p \in BOOLEAN :
        Handled([op |-> "UpdateItemPurchased", list_id |-> id,
                 item_name |-> nm, purchased |-> p],
                update_item_status(coll, id, nm, p))

DeleteItem ==
    \E id \in ListIds, nm \in ItemNames :
        Handled([op |-> "DeleteItem", list_id |-> id, item_name |-> nm],
                delete_item_from_grocery_list(coll, id, nm))

Next ==
    \/ CreateList
    \/ ListAll
    \/ GetList
    \/ ReplaceList
    \/ DeleteList
    \/ AddItem
    \/ UpdateItemPurchased
    \/ DeleteItem

Spec == Init /\ [][Next]_vars

\* ------------------------------------------------------ vocabulary of claims
IdOps == {"GetList", "ReplaceList", "DeleteList", "AddItem",
          "UpdateItemPurchased", "DeleteItem"}

\* The last request carried a list id / a well-formed one.
TakesId == last.req.op \in IdOps
WellFormed == TakesId /\ Len(last.req.list_id) = OidHexLen
                      /\ \A i \in 1..OidHexLen : IsHexChar(last.req.list_id[i])
Malformed == TakesId /\ ~WellFormed

Ids(c) == {c[i]._id : i \in 1..Len(c)}
Target == ObjectId(last.req.list_id)
\* Position of the addressed list in the collection before the request.
At == CHOOSE i \in 0..Len(last.pre) :
          IF Target \in Ids(last.pre) THEN i > 0 /\ last.pre[i]._id = Target ELSE i = 0
Present == WellFormed /\ Target \in Ids(last.pre)
Absent == WellFormed /\ Target \notin Ids(last.pre)

NotFound == last.status = 404
Success == last.status = 200
StoreUnchanged == coll = last.pre
\* Every list but the one at position i is as it was, at the same position.
OthersUnchanged(i) ==
    /\ Len(coll) = Len(last.pre)
    /\ \A k \in 1..Len(coll) : k # i => coll[k] = last.pre[k]

\* The item a request body denotes (purchased is false when it is left out).
Sent(b) == [name |-> b.name, quantity |-> b.quantity,
            purchased |-> ("purchased" \in DOMAIN b /\ b.purchased)]
SentItems(b) == [i \in 1..Len(b.items) |-> Sent(b.items[i])]

Named(items, name) == {j \in 1..Len(items) : items[j].name = name}

\* ---------------------------------------------------------------------- C1
\* C1: every operation that takes a list id, called with a malformed id,
\* answers not-found (404) and leaves the store unchanged.
C1_MalformedIdIsNotFound == Malformed => (NotFound /\ StoreUnchanged)

\* ---------------------------------------------------------------------- C2
\* C2: DeleteItem on an existing list with a name that matches no item of the
\* list answers NotFound (404) and leaves every list unchanged.
C2_DeleteMissingItemIsNotFound ==
    (last.req.op = "DeleteItem" /\ Present
        /\ Named(last.pre[At].items, last.req.item_name) = {})
    => (NotFound /\ StoreUnchanged)

\* ---------------------------------------------------------------------- C3
\* C3: CreateList followed by GetList on the returned id, with no write to the
\* list in between, answers the title and the items that were sent: same
\* order, same name, quantity and purchased values.
C3_RoundTrip ==
    (last.req.op = "GetList" /\ WellFormed /\ Target \in DOMAIN fresh)
    => /\ Success
       /\ last.body.title = fresh[Target].title
       /\ last.body.items = SentItems(fresh[Target])

C3_Witness ==
    /\ last.req.op = "GetList" /\ WellFormed /\ Target \in DOMAIN fresh
    /\ last.req.list_id \in IssuedIds
    /\ Len(fresh[Target].items) > 1
    /\ \E i \in 1..Len(fresh[Target].items) :
           "purchased" \notin DOMAIN fresh[Target].items[i]

\* ---------------------------------------------------------------------- C4
\* C4: a successful UpdateItemPurchased changes only the purchased field of
\* one item of that name; its name and quantity, the other items and their
\* order, the title and id of the list and the other lists are unchanged.
C4_UpdateFrame ==
    (last.req.op = "UpdateItemPurchased" /\ Success)
    => /\ Present
       /\ OthersUnchanged(At)
       /\ coll[At]._id = last.pre[At]._id
       /\ coll[At].title = last.pre[At].title
       /\ Len(coll[At].items) = Len(last.pre[At].items)
       /\ \E j \in Named(last.pre[At].items, last.req.item_name) :
              /\ coll[At].items[j].name = last.pre[At].items[j].name
              /\ coll[At].items[j].quantity = last.pre[At].items[j].quantity
              /\ coll[At].items[j].purchased = last.req.purchased
              /\ \A m \in 1..Len(coll[At].items) :
                     m # j => coll[At].items[m] = last.pre[At].items[m]

C4_Witness ==
    /\ last.req.op = "UpdateItemPurchased" /\ Success
    /\ Len(coll) > 1
    /\ Len(last.pre[At].items) > 1
    /\ coll # last.pre

\* ---------------------------------------------------------------------- C5
\* C5 as stated: with several items of the same name in a list, DeleteItem
\* removes exactly one of them and UpdateItemPurchased sets purchased on
\* exactly one of them.
C5_ExactlyOneAffected ==
    (Success /\ Present /\ last.req.op \in {"DeleteItem", "UpdateItemPurchased"}
        /\ Cardinality(Named(last.pre[At].items, last.req.item_name)) > 1)
    => IF last.req.op = "DeleteItem"
       THEN Len(coll[At].items) = Len(last.pre[At].items) - 1
       ELSE \E j \in Named(last.pre[At].items, last.req.item_name) :
                coll[At].items = [last.pre[At].items EXCEPT ![j].purchased =
                                                              last.req.purchased]

\* C5 as amended: with several items of the same name in a list, DeleteItem
\* removes every item of that name (the others keep values and order) and
\* UpdateItemPurchased sets purchased on the first of them only.
C5_DeleteAllUpdateFirst ==
    (Success /\ Present /\ last.req.op \in {"DeleteItem", "UpdateItemPurchased"}
        /\ Cardinality(Named(last.pre[At].items, last.req.item_name)) > 1)
    => LET old == last.pre[At].items
           new == coll[At].items
           hit == Named(old, last.req.item_name)
           first == CHOOSE j \in hit : \A k \in hit : j <= k
       IN IF last.req.op = "DeleteItem"
          THEN /\ Len(new) = Len(old) - Cardinality(hit)
               /\ Named(new, last.req.item_name) = {}
               /\ \A m \in 1..Len(old) :
                      m \notin hit =>
                          new[m - Cardinality({k \in hit : k < m})] = old[m]
          ELSE /\ Len(new) = Len(old)
               /\ new[first].purchased = last.req.purchased
               /\ \A m \in 1..Len(old) :
                      m # first => new[m] = old[m]

C5_Witness ==
    /\ Success /\ Present /\ last.req.op = "DeleteItem"
    /\ Cardinality(Named(last.pre[At].items, last.req.item_name)) > 1
    /\ Len(coll[At].items) > 0

\* ---------------------------------------------------------------------- C6
\* C6: ReplaceList on an existing id overwrites: afterwards the list has
\* exactly the title and the items that were sent (none when none were sent),
\* it keeps its id, and every other list is unchanged.
C6_ReplaceOverwrites ==
    (last.req.op = "ReplaceList" /\ Present)
    => /\ Success
       /\ OthersUnchanged(At)
       /\ coll[At]._id = last.pre[At]._id
       /\ coll[At].title = last.req.body.title
       /\ coll[At].items = SentItems(last.req.body)
       /\ DOMAIN coll[At] = {"_id", "title", "items"}

C6_Witness ==
    /\ last.req.op = "ReplaceList" /\ Present
    /\ Len(coll) > 1
    /\ Len(last.pre[At].items) > 3
    /\ last.req.body.items = << >>

\* ---------------------------------------------------------------------- C7
\* C7: AddItem on an existing list appends the sent item to the end of its
\* items, also when an item of that name is already there; the item count
\* grows by one and the title, the id and the other lists are unchanged.
C7_AddAppends ==
    (last.req.op = "AddItem" /\ Present)
    => /\ Success
       /\ OthersUnchanged(At)
       /\ coll[At]._id = last.pre[At]._id
       /\ coll[At].title = last.pre[At].title
       /\ Len(coll[At].items) = Len(last.pre[At].items) + 1
       /\ coll[At].items = last.pre[At].items \o <<Sent(last.req.body)>>

C7_Witness ==
    /\ last.req.op = "AddItem" /\ Present
    /\ Len(coll) > 1
    /\ Named(last.pre[At].items, last.req.body.name) # {}

\* ---------------------------------------------------------------------- C8
\* C8: a successful DeleteList removes exactly that list and leaves the others
\* unchanged; a list id that was deleted, or a well-formed id that was never
\* in the store, stays out of the store, and every operation on such an id
\* answers NotFound (404) and leaves the store unchanged.
IssuedBefore ==
    {GenOid(k) : k \in 1..(IF last.req.op = "CreateList" THEN nextOid - 1 ELSE nextOid)}

C8_DeletedStaysGone ==
    /\ (last.req.op = "DeleteList" /\ Present)
       => /\ Success
          /\ Len(coll) = Len(last.pre) - 1
          /\ Target \notin Ids(coll)
          /\ \A k \in 1..Len(coll) :
                 coll[k] = IF k < At THEN last.pre[k] ELSE last.pre[k + 1]
    /\ Absent => (NotFound /\ StoreUnchanged)
    /\ \A oid \in IssuedBefore \cup {ObjectId(NeverIssuedId)} :
           oid \notin Ids(last.pre) => oid \notin Ids(coll)

C8_Witness ==
    /\ last.req.op = "ReplaceList" /\ Absent
    /\ Target \in IssuedBefore
    /\ Len(coll) > 0

\* ---------------------------------------------------------------------- C9
\* s is the canonical (lower-case hexadecimal) string of oid.
Canonical(s, oid) ==
    /\ Len(s) = OidHexLen
    /\ \A i \in 1..OidHexLen : \E v \in 0..15 : HexChars[v + 1] = s[i] /\ oid[i] = v

\* Response b shows document d, with the identifier in the field named key.
Shows(b, d, key) ==
    /\ DOMAIN b = {key, "title", "items"}
    /\ Canonical(b[key], d._id)
    /\ b.title = d.title
    /\ b.items = d.items

Responses(key) ==
    /\ (last.req.op = "GetList" /\ Present)
       => (Success /\ Shows(last.body, last.pre[At], key))
    /\ last.req.op = "ListAll"
       => /\ Success
          /\ Len(last.body) = Len(coll)
          /\ \A i \in 1..Len(coll) : Shows(last.body[i], coll[i], key)
          /\ \A i, j \in 1..Len(last.body) :
                 i # j => last.body[i][key] # last.body[j][key]
    /\ last.req.op = "CreateList"
       => Canonical(last.body.id, coll[Len(coll)]._id)

ConcId == str(GenOid(1))
ConcListBodies == {[title |-> "Party", items |-> << >>],
                   [title |-> "Weekly", items |-> <<Milk>>]}

ConcRequests ==
    {[op |-> "CreateList", body |-> [title |-> "Weekly", items |-> <<Milk>>]],
     [op |-> "ListAll"],
     [op |-> "GetList", list_id |-> ConcId],
     [op |-> "DeleteList", list_id |-> ConcId],
     [op |-> "UpdateItemPurchased", list_id |-> ConcId, item_name |-> "milk",
      purchased |-> TRUE],
     [op |-> "DeleteItem", list_id |-> ConcId, item_name |-> "milk"]}
    \cup {[op |-> "ReplaceList", list_id |-> ConcId, body |-> b] :
             b \in ConcListBodies}
    \cup {[op |-> "AddItem", list_id |-> ConcId, body |-> b] : b \in ItemBodies}

\* CreateList requests that arrived and have not reached the store yet.
PendingCreates == {c \in Clients : pc[c] = "recv" /\ req[c].op = "CreateList"}

Receive(c) ==
    /\ pc[c] = "idle"
    /\ ops < MaxReqs
    /\ \E r \in ConcRequests :
           /\ r.op = "CreateList" => nextOid + Cardinality(PendingCreates) < MaxIds
           /\ req' = [req EXCEPT ![c] = r]
    /\ pc' = [pc EXCEPT ![c] = "recv"]
    /\ ops' = ops + 1
    /\ UNCHANGED <<coll, nextOid, last, fresh, res, log>>

\* The handler of client c's request runs: h is what it does to collection
\* coll and what it answers.
Run(c, op, h) ==
    /\ coll' = h.coll
    /\ nextOid' = IF op = "CreateList" THEN nextOid + 1 ELSE nextOid
    /\ res' = [res EXCEPT ![c] = [status |-> h.status, body |-> h.body]]
    /\ log' = Append(log, [client |-> c, req |-> req[c], status |-> h.status])
    /\ pc' = [pc EXCEPT ![c] = "done"]
    /\ UNCHANGED <<last, ops, fresh, req>>

At_(c, op) == pc[c] = "recv" /\ req[c].op = op

RunCreateList(c) ==
    /\ At_(c, "CreateList")
    /\ Run(c, "CreateList", create_grocery_list(coll, nextOid, req[c].body))

RunListAll(c) ==
    /\ At_(c, "ListAll")
    /\ Run(c, "ListAll", get_all_grocery_lists(coll))

RunGetList(c) ==
    /\ At_(c, "GetList")
    /\ Run(c, "GetList", get_grocery_list(coll, req[c].list_id))

RunReplaceList(c) ==
    /\ At_(c, "ReplaceList")
    /\ Run(c, "ReplaceList", update_grocery_list(coll, req[c].list_id, req[c].body))

RunDeleteList(c) ==
    /\ At_(c, "DeleteList")
    /\ Run(c, "DeleteList", delete_grocery_list(coll, req[c].list_id))

RunAddItem(c) ==
    /\ At_(c, "AddItem")
    /\ Run(c, "AddItem", add_item_to_grocery_list(coll, req[c].list_id, req[c].body))

RunUpdateItemPurchased(c) ==
    /\ At_(c, "UpdateItemPurchased")
    /\ Run(c, "UpdateItemPurchased",
           update_item_status(coll, req[c].list_id, req[c].item_name,
                              req[c].purchased))

RunDeleteItem(c) ==
    /\ At_(c, "DeleteItem")
    /\ Run(c, "DeleteItem",
           delete_item_from_grocery_list(coll, req[c].list_id, req[c].item_name))

Respond(c) ==
    /\ pc[c] = "done"
    /\ pc' = [pc EXCEPT ![c] = "idle"]
    /\ req' = [req EXCEPT ![c] = NoReq]
    /\ res' = [res EXCEPT ![c] = NoRes]
    /\ UNCHANGED <<coll, nextOid, last, ops, fresh, log>>

NextConc ==
    \E c \in Clients :
        \/ Receive(c)
        \/ RunCreateList(c)
        \/ RunListAll(c)
        \/ RunGetList(c)
        \/ RunReplaceList(c)
        \/ RunDeleteList(c)
        \/ RunAddItem(c)
        \/ RunUpdateItemPurchased(c)
        \/ RunDeleteItem(c)
        \/ Respond(c)

SpecConc == Init /\ [][NextConc]_vars

\* --------------------------------------------------------------------- C10
\* What one request does to collection c when requests are applied one at a
\* time; k lists were created before it.
SeqStep(c, r, k) ==
    LET hit(d) == /\ r.op \in IdOps
                  /\ Len(r.list_id) = OidHexLen
                  /\ \A i \in 1..OidHexLen : IsHexChar(r.list_id[i])
                  /\ d._id = ObjectId(r.list_id)
        change(d) ==
            CASE r.op = "ReplaceList" ->
                     [_id |-> d._id, title |-> r.body.title, items |-> SentItems(r.body)]
              [] r.op = "AddItem" ->
                     [_id |-> d._id, title |-> d.title,
                      items |-> d.items \o <<Sent(r.body)>>]
              [] r.op = "UpdateItemPurchased" ->
                     [_id |-> d._id, title |-> d.title,
                      items |-> [j \in 1..Len(d.items) |->
                          IF d.items[j].name = r.item_name
                             /\ \A m \in 1..(j - 1) : d.items[m].name # r.item_name
                          THEN [name |-> d.items[j].name,
                                quantity |-> d.items[j].quantity,
                                purchased |-> r.purchased]
                          ELSE d.items[j]]]
              [] r.op = "DeleteItem" ->
                     [_id |-> d._id, title |-> d.title,
                      items |-> SelectSeq(d.items, LAMBDA it : it.name # r.item_name)]
              [] OTHER -> d
    IN CASE r.op = "CreateList" ->
                c \o <<[_id |-> GenOid(k + 1), title |-> r.body.title,
                        items |-> SentItems(r.body)]>>
         [] r.op = "DeleteList" -> SelectSeq(c, LAMBDA d : ~hit(d))
         [] OTHER -> [i \in 1..Len(c) |-> IF hit(c[i]) THEN change(c[i]) ELSE c[i]]

Creates(l) == Cardinality({i \in 1..Len(l) : l[i].req.op = "CreateList"})

RECURSIVE Replay(_)
\* The collection after the requests of l, applied one at a time in order.
Replay(l) ==
    IF l = << >> THEN << >>
    ELSE LET front == SubSeq(l, 1, Len(l) - 1)
         IN SeqStep(Replay(front), l[Len(l)].req, Creates(front))

\* Clients c and d both added an item to the same list, their store commands
\* were the last two the store applied, in this order.
AddedTogether(c, d) ==
    /\ c # d
    /\ pc[c] = "done" /\ pc[d] = "done"
    /\ req[c].op = "AddItem" /\ req[d].op = "AddItem"
    /\ res[c].status = 200 /\ res[d].status = 200
    /\ ObjectId(req[c].list_id) = ObjectId(req[d].list_id)
    /\ Len(log) >= 2
    /\ log[Len(log) - 1].client = c
    /\ log[Len(log)].client = d

\* C10: under every interleaving each request takes effect in one step that
\* fully succeeds or fully fails: the store is what the requests handled so
\* far give when applied one at a time in the order the store took them (the
\* last of two conflicting writes wins), a request that failed changed
\* nothing, and two concurrent AddItem on one list leave both items in it.
C10_AtomicRequests ==
    /\ coll = Replay(log)
    /\ \A i \in 1..Len(log) :
           /\ log[i].status \in {200, 404, 500}
           /\ log[i].status # 200 =>
                  Replay(SubSeq(log, 1, i)) = Replay(SubSeq(log, 1, i - 1))
    /\ \A c \in Clients :
           pc[c] = "done" =>
               \E i \in 1..Len(log) :
                   /\ log[i].client = c /\ log[i].req = req[c]
                   /\ log[i].status = res[c].status
    /\ (Len(log) > 0 /\ log[Len(log)].req.op = "ReplaceList"
                     /\ log[Len(log)].status = 200)
       => \E i \in 1..Len(coll) :
              /\ coll[i]._id = ObjectId(log[Len(log)].req.list_id)
              /\ coll[i].title = log[Len(log)].req.body.title
              /\ coll[i].items = SentItems(log[Len(log)].req.body)
    /\ \A c, d \in Clients :
           AddedTogether(c, d) =>
               \E i \in 1..Len(coll) :
                   LET n == Len(coll[i].items) IN
                   /\ coll[i]._id = ObjectId(req[c].list_id)
                   /\ n >= 2
                   /\ coll[i].items[n - 1] = Sent(req[c].body)
                   /\ coll[i].items[n] = Sent(req[d].body)

C10_Witness ==
    \E c, d \in Clients :
        /\ AddedTogether(c, d)
        /\ req[c].body # req[d].body

====
